---- MODULE Spec2Model ----
(***************************************************************************)
(* Model of the uniprot_pipeline package: the recursive flattener          *)
(* (flatten.py), the incremental merger (merger.py) and the orchestration  *)
(* of a bulk or incremental run (pipeline.py, downloader.py).              *)
(*                                                                         *)
(* JSON values are tagged pairs <<tag, payload>>:                          *)
(*   <<"num", 1>>                       a number                          *)
(*   <<"str", "X1">>                    a string                          *)
(*   <<"null", 0>>                      null / None / NaN / NaT           *)
(*   <<"list", <<x1, ...>>>>            a list                            *)
(*   <<"dict", << <<k1, x1>>, ... >>>>  a dict, in insertion order        *)
(* A Python dict under construction (out) is a sequence of <<key, value>>  *)
(* pairs in insertion order.                                               *)
(***************************************************************************)
EXTENDS Integers, Sequences, FiniteSets, TLC

VARIABLES
    y, max_depth, include_keys, exclude_keys, out, fl_pc,   \* a call of flatten_json
    fs,                                                     \* the files, by path
    old_path, new_path, output_path, file_format,           \* a call of merge_incremental_data
    merged, m_pc,
    mode, from_date, base_jsonl, exclude_sequence, response, \* a call of run_pipeline
    run, p_pc

flattenVars == <<y, max_depth, include_keys, exclude_keys, out, fl_pc>>

mergeVars == <<old_path, new_path, output_path, file_format, merged, m_pc>>

pipelineVars == <<mode, from_date, base_jsonl, exclude_sequence, response, run, p_pc>>

vars == <<flattenVars, fs, mergeVars, pipelineVars>>

---------------------------------------------------------------------------
(* Python values *)

None == <<>>

Some(v) == <<v>>

Num(n) == <<"num", n>>

Str(s) == <<"str", s>>

Null == <<"null", 0>>

List(items) == <<"list", items>>

Dict(items) == <<"dict", items>>

IsDict(x) == x[1] = "dict"

IsList(x) == x[1] = "list"

\* the items of a list or of a dict
Items(x) == x[2]

---------------------------------------------------------------------------
(* flatten.py *)

\* out[name] = x on an insertion-ordered dict
DictSet(d, name, x) ==
    IF \E i \in 1..Len(d) : d[i][1] = name
    THEN [i \in 1..Len(d) |-> IF d[i][1] = name THEN <<name, x>> ELSE d[i]]
    ELSE Append(d, <<name, x>>)

\* "." in name
RECURSIVE HasDot(_, _)
HasDot(name, i) ==
    IF i > Len(name) THEN FALSE
    ELSE IF SubSeq(name, i, i) = "." THEN TRUE
    ELSE HasDot(name, i + 1)

\* name.partition(".")[0]
RECURSIVE PartitionHead(_, _)
PartitionHead(name, i) ==
    IF i > Len(name) THEN name
    ELSE IF SubSeq(name, i, i) = "." THEN SubSeq(name, 1, i - 1)
    ELSE PartitionHead(name, i + 1)

\* top_key = name.partition(".")[0] if "." in name else name
TopKey(name) == IF HasDot(name, 1) THEN PartitionHead(name, 1) ELSE name

\* the two early returns of the depth == 0 block
TopLevelDropped(name, inc, exc) ==
    \/ inc # None /\ TopKey(name) \notin inc[1]
    \/ exc # None /\ TopKey(name) \in exc[1]

DepthLimitReachedOffByOne(depth, md) == md # None /\ depth > md[1]

\* max_depth is not None and depth >= max_depth
DepthLimitReached(depth, md) == md # None /\ depth >= md[1]

AllDictsInverted(items) == \A i \in 1..Len(items) : ~IsDict(items[i])

\* all(isinstance(i, dict) for i in x)
AllDicts(items) == \A i \in 1..Len(items) : IsDict(items[i])

\* f"{name}.{k}" if name else k
FullKey(name, k) == IF name # "" THEN name \o "." \o k ELSE k

RECURSIVE flatten(_, _, _, _, _, _, _)
RECURSIVE flatten_dict_items(_, _, _, _, _, _, _, _)
RECURSIVE flatten_list_items(_, _, _, _, _, _, _, _)

\* for k, v in x.items(): flatten(v, full_key, depth + 1)
flatten_dict_items(o, items, i, name, depth, md, inc, exc) ==
    IF i > Len(items) THEN o
    ELSE flatten_dict_items(
             flatten(o, items[i][2], FullKey(name, items[i][1]), depth + 1, md, inc, exc),
             items, i + 1, name, depth, md, inc, exc)

\* for idx, item in enumerate(x): flatten(item, full_key, depth + 1)
flatten_list_items(o, items, i, name, depth, md, inc, exc) ==
    IF i > Len(items) THEN o
    ELSE flatten_list_items(
             flatten(o, items[i], FullKey(name, ToString(i - 1)), depth + 1, md, inc, exc),
             items, i + 1, name, depth, md, inc, exc)

\* the nested helper flatten(x, name, depth); o is the enclosing out
flatten(o, x, name, depth, md, inc, exc) ==
    IF depth = 0 /\ TopLevelDropped(name, inc, exc) THEN o
    ELSE IF DepthLimitReached(depth, md) THEN DictSet(o, name, x)
    ELSE IF IsDict(x) THEN flatten_dict_items(o, Items(x), 1, name, depth, md, inc, exc)
    ELSE IF IsList(x) THEN
        IF AllDicts(Items(x))
        THEN flatten_list_items(o, Items(x), 1, name, depth, md, inc, exc)
        ELSE DictSet(o, name, x)
    ELSE DictSet(o, name, x)

\* flatten_json(y, prefix, max_depth, include_keys, exclude_keys)
flatten_json(rec, prefix, md, inc, exc) == flatten(<<>>, rec, prefix, 0, md, inc, exc)

---------------------------------------------------------------------------
(* merger.py.  A file is <<kind, rows>>: kind is "absent", or the format   *)
(* its content is written in ("jsonl", "json"); rows are dicts.  A         *)
(* DataFrame is [columns, data]: data holds one dict per row, over all the *)
(* columns, with Null (NaN) where the row had no value.  A call returns    *)
(* <<"ok", value>> or raises: <<"raise", exception>>.                      *)

IdColumn == "primaryAccession"

SortBy == "entryAudit.lastAnnotationUpdateDate"

Ok(v) == <<"ok", v>>

Raise(exc) == <<"raise", exc>>

IsOk(r) == r[1] = "ok"

Absent == <<"absent", <<>>>>

\* Path(path).exists()
Exists(files, path) == files[path][1] # "absent"

\* k in row
HasKey(row, k) == \E i \in 1..Len(row) : row[i][1] = k

\* the cell of row under k; NaN where the row has none
Get(row, k) == IF HasKey(row, k) THEN row[CHOOSE i \in 1..Len(row) : row[i][1] = k][2] ELSE Null

Contains(seq, x) == \E i \in 1..Len(seq) : seq[i] = x

RECURSIVE AppendNew(_, _, _)
\* cols, then the keys of row not among them, in order
AppendNew(cols, row, i) ==
    IF i > Len(row) THEN cols
    ELSE AppendNew(IF Contains(cols, row[i][1]) THEN cols ELSE Append(cols, row[i][1]),
                   row, i + 1)

RECURSIVE ColumnsOf(_, _, _)
\* the union of the rows' keys, first seen first
ColumnsOf(cols, rows, i) ==
    IF i > Len(rows) THEN cols
    ELSE ColumnsOf(AppendNew(cols, rows[i], 1), rows, i + 1)

\* a row over exactly the columns cols
Reindex(row, cols) == [c \in 1..Len(cols) |-> <<cols[c], Get(row, cols[c])>>]

EmptyDataFrame == [columns |-> <<>>, data |-> <<>>]

\* pd.read_json(path) / pd.read_json(path, lines=True) on parsed rows
read_json(rows) ==
    LET cols == ColumnsOf(<<>>, rows, 1)
    IN  [columns |-> cols, data |-> [i \in 1..Len(rows) |-> Reindex(rows[i], cols)]]

\* read_file(path, file_format): the content parses only in the format it is written in
read_file(files, path, fmt) ==
    IF fmt \notin {"json", "jsonl"} THEN Raise("ValueError")
    ELSE IF files[path][1] # fmt THEN Raise("ValueError")
    ELSE Ok(read_json(files[path][2]))

\* write_file(df, path, file_format): df.to_json(path, orient="records")
write_file(files, df, path, fmt) ==
    IF fmt \notin {"json", "jsonl"} THEN Raise("ValueError")
    ELSE Ok([files EXCEPT ![path] = <<fmt, df.data>>])

\* pd.concat([a, b], ignore_index=True)
concat(a, b) ==
    LET withB == [i \in 1..Len(b.columns) |-> <<b.columns[i], Null>>]
        cols == AppendNew(a.columns, withB, 1)
    IN  [columns |-> cols,
         data |-> [i \in 1..Len(a.data) |-> Reindex(a.data[i], cols)]
                  \o [i \in 1..Len(b.data) |-> Reindex(b.data[i], cols)]]

\* the characters of the modelled strings, in code point order
Alphabet == "-/0123456789an"

Ord(c) == CHOOSE i \in 1..Len(Alphabet) : SubSeq(Alphabet, i, i) = c

RECURSIVE StrLess(_, _, _)
\* Python's a < b on str, from position i on
StrLess(a, b, i) ==
    IF i > Len(a) THEN i <= Len(b)
    ELSE IF i > Len(b) THEN FALSE
    ELSE IF SubSeq(a, i, i) # SubSeq(b, i, i)
         THEN Ord(SubSeq(a, i, i)) < Ord(SubSeq(b, i, i))
    ELSE StrLess(a, b, i + 1)

CellGreater(a, b) == IF a[1] = "str" THEN StrLess(b[2], a[2], 1) ELSE b[2] < a[2]

\* a < b on two cells of one type that are not NaN
CellLess(a, b) == IF a[1] = "str" THEN StrLess(a[2], b[2], 1) ELSE a[2] < b[2]

Injective(f) == \A i, j \in DOMAIN f : f[i] = f[j] => i = j

\* combined.sort_values(by=by, ascending=False): kind defaults to "quicksort", which
\* is not stable, so rows with equal keys come in any order; NaN keys come last
\* (na_position="last"), in their original order; str against int raises TypeError.
\* The set of the possible results.
sort_values_descending(data, by) ==
    LET n == Len(data)
        keys == [i \in 1..n |-> Get(data[i], by)]
        IsNa(i) == keys[i] = Null
        na == SelectSeq([i \in 1..n |-> i], IsNa)
        nn == {i \in 1..n : keys[i] # Null}
        m == Cardinality(nn)
        less == [i \in nn, j \in nn |-> CellLess(keys[i], keys[j])]
        orders == {p \in [1..m -> nn] :
                      /\ Injective(p)
                      /\ \A k \in 1..(m - 1) : ~less[p[k], p[k + 1]]}
    IN  IF \E i, j \in nn : keys[i][1] # keys[j][1]
        THEN {Raise("TypeError")}
        ELSE {Ok([k \in 1..n |-> data[IF k <= m THEN p[k] ELSE na[k - m]]]) : p \in orders}

\* keep="first": row i stays when no earlier row has its subset value
KeepsFirst(data, subset, i) ==
    \A j \in 1..(i - 1) : Get(data[j], subset) # Get(data[i], subset)

\* combined.drop_duplicates(subset=subset, keep="first"); reset_index(drop=True)
drop_duplicates(data, subset) ==
    LET Keep(i) == KeepsFirst(data, subset, i)
        idx == SelectSeq([i \in 1..Len(data) |-> i], Keep)
    IN  [k \in 1..Len(idx) |-> data[idx[k]]]

\* An outcome of a call: what it returned or raised, the files after it, the rows.
Outcome(status, files, rows) == [status |-> status, files |-> files, rows |-> rows]

\* the merged output written before the column check
MergeCombinedWriteFirst(files, combined, outp, fmt) ==
    LET early == write_file(files, combined, outp, fmt)
        after == IF IsOk(early) THEN early[2] ELSE files
    IN  IF ~Contains(combined.columns, IdColumn) \/ ~Contains(combined.columns, SortBy)
        THEN {Outcome("ValueError", after, <<>>)}
        ELSE {IF ~IsOk(sorted) THEN Outcome(sorted[2], after, <<>>)
              ELSE LET result == [columns |-> combined.columns,
                                  data |-> drop_duplicates(sorted[2], IdColumn)]
                       written == write_file(files, result, outp, fmt)
                   IN  IF IsOk(written) THEN Outcome("returned", written[2], result.data)
                       ELSE Outcome(written[2], files, <<>>)
              : sorted \in sort_values_descending(combined.data, SortBy)}

\* merge_incremental_data, from the column check on
MergeCombined(files, combined, outp, fmt) ==
    IF ~Contains(combined.columns, IdColumn) \/ ~Contains(combined.columns, SortBy)
    THEN {Outcome("ValueError", files, <<>>)}
    ELSE {IF ~IsOk(sorted) THEN Outcome(sorted[2], files, <<>>)
          ELSE LET result == [columns |-> combined.columns,
                              data |-> drop_duplicates(sorted[2], IdColumn)]
                   written == write_file(files, result, outp, fmt)
               IN  IF IsOk(written) THEN Outcome("returned", written[2], result.data)
                   ELSE Outcome(written[2], files, <<>>)
          : sorted \in sort_values_descending(combined.data, SortBy)}

\* merge_incremental_data(old_path, new_path, output_path, file_format=file_format):
\* the set of its possible outcomes. oldp is None or Some(path).
merge_incremental_data(files, oldp, newp, outp, fmt) ==
    IF ~Exists(files, newp) THEN {Outcome("FileNotFoundError", files, <<>>)}
    ELSE LET new_df == read_file(files, newp, fmt)
         IN  IF ~IsOk(new_df) THEN {Outcome(new_df[2], files, <<>>)}
             ELSE IF oldp = None THEN {Outcome("TypeError", files, <<>>)}
             ELSE IF Exists(files, oldp[1])
                  THEN LET old_df == read_file(files, oldp[1], fmt)
                       IN  IF ~IsOk(old_df) THEN {Outcome(old_df[2], files, <<>>)}
                           ELSE MergeCombined(files, concat(old_df[2], new_df[2]), outp, fmt)
                  ELSE MergeCombined(files, concat(EmptyDataFrame, new_df[2]), outp, fmt)

---------------------------------------------------------------------------
(* pipeline.py and downloader.py.  The remote API is the response: a       *)
(* request error, a body that is no JSON, or a list of records.            *)

Digits == "0123456789"

IsDigit(c) == \E i \in 1..Len(Digits) : SubSeq(Digits, i, i) = c

DigitOf(c) == (CHOOSE i \in 1..Len(Digits) : SubSeq(Digits, i, i) = c) - 1

RECURSIVE AllDigits(_, _, _)
AllDigits(s, from, to) ==
    from > to \/ (IsDigit(SubSeq(s, from, from)) /\ AllDigits(s, from + 1, to))

RECURSIVE NumberOf(_, _, _)
NumberOf(s, from, to) ==
    IF from > to THEN 0 ELSE NumberOf(s, from, to - 1) * 10 + DigitOf(SubSeq(s, to, to))

\* a cell that holds a date YYYY-MM-DD
IsDateCell(c) ==
    /\ c[1] = "str"
    /\ Len(c[2]) = 10
    /\ SubSeq(c[2], 5, 5) = "-" /\ SubSeq(c[2], 8, 8) = "-"
    /\ AllDigits(c[2], 1, 4) /\ AllDigits(c[2], 6, 7) /\ AllDigits(c[2], 9, 10)

Year(c) == NumberOf(c[2], 1, 4)

Month(c) == NumberOf(c[2], 6, 7)

Day(c) == NumberOf(c[2], 9, 10)

IsLeap(yr) == yr % 4 = 0 /\ (yr % 100 # 0 \/ yr % 400 = 0)

DaysInMonth(yr, mo) ==
    IF mo = 2 THEN (IF IsLeap(yr) THEN 29 ELSE 28)
    ELSE IF mo \in {4, 6, 9, 11} THEN 30 ELSE 31

\* the day number of a civil date, counted from 1970-01-01
DaysFromCivil(yr, mo, dy) ==
    LET yy == IF mo <= 2 THEN yr - 1 ELSE yr
        era == yy \div 400
        yoe == yy - era * 400
        doy == (153 * (IF mo > 2 THEN mo - 3 ELSE mo + 9) + 2) \div 5 + dy - 1
        doe == yoe * 365 + yoe \div 4 - yoe \div 100 + doy
    IN  era * 146097 + doe - 719468

\* whether a cell parses as a timestamp
Parses(c) ==
    /\ IsDateCell(c)
    /\ Month(c) \in 1..12
    /\ Day(c) \in 1..DaysInMonth(Year(c), Month(c))

\* pd.to_datetime(value, errors="coerce") on one cell: a timestamp, counted in days,
\* or NaT
to_datetime(c) ==
    IF Parses(c) THEN <<"ts", DaysFromCivil(Year(c), Month(c), Day(c))>> ELSE Null

\* to_json's date_format="epoch" on one cell: a timestamp becomes a number (the
\* count is kept in days here; the file holds milliseconds, 86400000 times that)
to_epoch(c) == IF c[1] = "ts" THEN Num(c[2]) ELSE c

StartsWith(str, pre) == Len(str) >= Len(pre) /\ SubSeq(str, 1, Len(pre)) = pre

EndsWith(str, suf) ==
    Len(str) >= Len(suf) /\ SubSeq(str, Len(str) - Len(suf) + 1, Len(str)) = suf

RECURSIVE Replace(_, _, _, _)
\* str.replace(old, new), from position i on
Replace(str, old, new, i) ==
    IF i + Len(old) - 1 > Len(str) THEN SubSeq(str, i, Len(str))
    ELSE IF SubSeq(str, i, i + Len(old) - 1) = old
         THEN new \o Replace(str, old, new, i + Len(old))
    ELSE SubSeq(str, i, i) \o Replace(str, old, new, i + 1)

make_temp_path(path) ==
    IF EndsWith(path, ".json") THEN Replace(path, ".json", "_incremental.json", 1)
    ELSE IF EndsWith(path, ".jsonl") THEN Replace(path, ".jsonl", "_incremental.jsonl", 1)
    ELSE path \o "_incremental"

\* metadata_path = output_json_path.replace(".json", "_metadata.json")
metadata_path(output_json_path) == Replace(output_json_path, ".json", "_metadata.json", 1)

\* _log_and_write_metadata(headers, output_json_path, query): writes the metadata file
log_and_write_metadata(files, output_json_path) ==
    [files EXCEPT ![metadata_path(output_json_path)] = <<"metadata", <<>>>>]

\* row = {k: v for k, v in row.items() if not k.startswith("sequence.value")}
DropSequence(row) ==
    LET Kept(kv) == ~StartsWith(kv[1], "sequence.value")
    IN  SelectSeq(row, Kept)

\* uniprot_data(query, output_json_path, flat_jsonl_path=..., exclude_sequence=...):
\* what it returns (None, or Some(flattened)) and the files after it
uniprot_data(files, resp, output_json_path, flat_jsonl_path, excl) ==
    IF resp[1] = "RequestException" THEN [result |-> None, files |-> files]
    ELSE LET saved == [files EXCEPT ![output_json_path] = <<"raw", resp[2]>>]
         IN  IF resp[1] = "not_json" THEN [result |-> None, files |-> saved]
             ELSE IF resp[2] = <<>> THEN [result |-> None, files |-> saved]
             ELSE LET Row(i) == flatten_json(resp[2][i], "", None, None, None)
                      flattened == [i \in 1..Len(resp[2]) |->
                                       IF excl THEN DropSequence(Row(i)) ELSE Row(i)]
                  IN  [result |-> Some(flattened),
                       files |-> [saved EXCEPT ![flat_jsonl_path] = <<"jsonl", flattened>>]]

DateFields == <<"entryAudit.firstPublicDate", "entryAudit.lastAnnotationUpdateDate">>

\* df[field] = pd.to_datetime(df[field], errors="coerce") for the date fields
ConvertDates(data) ==
    [i \in 1..Len(data) |->
        [c \in 1..Len(data[i]) |->
            IF Contains(DateFields, data[i][c][1])
            THEN <<data[i][c][1], to_datetime(data[i][c][2])>>
            ELSE data[i][c]]]

PassesFilterStrict(cell, since) == cell # Null /\ cell[2] > since[2]

\* df[sortField] >= pd.to_datetime(from_date), on one cell (NaT compares False)
PassesFilter(cell, since) == cell # Null /\ cell[2] >= since[2]

\* filtered.to_json(temp_path, orient="records", lines=True)
to_json_lines(data) ==
    [i \in 1..Len(data) |->
        [c \in 1..Len(data[i]) |-> <<data[i][c][1], to_epoch(data[i][c][2])>>]]

Ended(status, stage, files) == [status |-> status, stage |-> stage, files |-> files]

\* run_pipeline in incremental mode, once uniprot_data has returned records
FilterAndMerge(files, records, since, base, temp_path, output_jsonl, fmt) ==
    LET df == read_json(records)
        data == ConvertDates(df.data)
        from_ts == to_datetime(Str(since))
    IN  IF ~Contains(df.columns, SortBy) THEN {Ended("KeyError", "filter", files)}
        ELSE IF from_ts = Null THEN {Ended("ValueError", "filter", files)}
        ELSE LET Keep(row) == PassesFilter(Get(row, SortBy), from_ts)
                 filtered == SelectSeq(data, Keep)
                 written == [files EXCEPT ![temp_path] = <<"jsonl", to_json_lines(filtered)>>]
             IN  IF filtered = <<>> THEN {Ended("returned", "skipped", files)}
                 ELSE {Ended(o.status, "merge", o.files) :
                          o \in merge_incremental_data(written, base, temp_path,
                                                       output_jsonl, fmt)}

\* run_pipeline(mode, output_json, output_jsonl, from_date=..., base_jsonl=...,
\* exclude_sequence=..., file_format=...): the set of its possible endings
run_pipeline(files, md, output_json, output_jsonl, since, base, excl, fmt, resp) ==
    IF md \notin {"bulk", "incremental"} THEN {Ended("ValueError", "mode", files)}
    ELSE IF md = "bulk" THEN
        LET got == uniprot_data(files, resp, output_json, output_jsonl, excl)
        IN  IF got.result = None THEN {Ended("TypeError", "fetch", got.files)}
            ELSE {Ended("returned", "bulk", log_and_write_metadata(got.files, output_json))}
    ELSE IF since = None \/ since = Some("") THEN {Ended("ValueError", "mode", files)}
    ELSE LET temp_path == make_temp_path(output_jsonl)
             got == uniprot_data(files, resp, output_json, temp_path, excl)
         IN  IF got.result = None THEN {Ended("TypeError", "fetch", got.files)}
             ELSE FilterAndMerge(log_and_write_metadata(got.files, output_json),
                                 got.result[1], since[1], base, temp_path,
                                 output_jsonl, fmt)

---------------------------------------------------------------------------
(* The paths of the documented invocations (merger.py and run.py). *)

BulkPath == "data/uniprot_bulk.jsonl"

FlatPath == "data/uniprot_flat.jsonl"

MergedPath == "data/uniprot_merged.jsonl"

RawPath == "data/uniprot_raw.json"

Paths == {BulkPath, FlatPath, MergedPath, RawPath,
          make_temp_path(MergedPath), metadata_path(RawPath)}

NoFiles == [p \in Paths |-> Absent]

NotCalled == [status |-> "none", rows |-> <<>>]

MergeIdle ==
    /\ old_path = None
    /\ new_path = ""
    /\ output_path = ""
    /\ merged = NotCalled
    /\ m_pc = "idle"

PipelineIdle ==
    /\ mode = ""
    /\ from_date = None
    /\ base_jsonl = None
    /\ exclude_sequence = FALSE
    /\ response = <<"RequestException", <<>>>>
    /\ run = [status |-> "none", stage |-> "none"]
    /\ p_pc = "idle"

FlattenIdle ==
    /\ y = Dict(<<>>)
    /\ max_depth = None
    /\ include_keys = None
    /\ exclude_keys = None
    /\ out = <<>>
    /\ fl_pc = "idle"

---------------------------------------------------------------------------
(* Inputs of the flattener: every record of at most MaxNodes nodes over    *)
(* TopKeys and Scalars, and the record of the documented example.          *)

MaxNodes == 5

MaxDepthLimit == 3

TopKeys == <<"a", "d">>

Scalars == {Num(1), Null}

RECURSIVE ValuesOfSize(_)
RECURSIVE ListsOfSize(_)
RECURSIVE DictItemsOfSize(_, _)

\* the lists whose items have m nodes in all
ListsOfSize(m) ==
    IF m = 0 THEN {<<>>}
    ELSE UNION {{<<h>> \o tl : h \in ValuesOfSize(k), tl \in ListsOfSize(m - k)} :
                k \in 1..m}

\* the dict items over TopKeys[from..] whose values have m nodes in all
DictItemsOfSize(m, from) ==
    IF m = 0 THEN {<<>>}
    ELSE UNION {{<< <<TopKeys[j], h>> >> \o tl :
                    h \in ValuesOfSize(k), tl \in DictItemsOfSize(m - k, j + 1)} :
                k \in 1..m, j \in from..Len(TopKeys)}

ValuesOfSize(n) ==
    (IF n = 1 THEN Scalars ELSE {})
        \cup {List(l) : l \in ListsOfSize(n - 1)}
        \cup {Dict(d) : d \in DictItemsOfSize(n - 1, 1)}

Records == UNION {{Dict(d) : d \in DictItemsOfSize(n - 1, 1)} : n \in 1..MaxNodes}

\* {"a": {"b": 1, "c": [1,2,3]}, "d": [{"e": 4}, {"e": 5}]}
ExampleRecord ==
    Dict(<< <<"a", Dict(<< <<"b", Num(1)>>,
                           <<"c", List(<<Num(1), Num(2), Num(3)>>)>> >>)>>,
            <<"d", List(<<Dict(<< <<"e", Num(4)>> >>),
                          Dict(<< <<"e", Num(5)>> >>)>>)>> >>)

\* {"a.b": 1, "a.c": [1,2,3], "d.0.e": 4, "d.1.e": 5}
ExampleFlat ==
    << <<"a.b", Num(1)>>, <<"a.c", List(<<Num(1), Num(2), Num(3)>>)>>,
       <<"d.0.e", Num(4)>>, <<"d.1.e", Num(5)>> >>

DepthChoices == {None} \cup {Some(d) : d \in 1..MaxDepthLimit}

KeySetChoices == {Some(S) : S \in SUBSET {TopKeys[i] : i \in 1..Len(TopKeys)}}

InitFlatten ==
    /\ y \in Records \cup {ExampleRecord}
    /\ \/ /\ max_depth \in DepthChoices
          /\ include_keys = None
          /\ exclude_keys = None
       \/ /\ max_depth = None
          /\ include_keys \in KeySetChoices
          /\ exclude_keys = None
       \/ /\ max_depth = None
          /\ include_keys = None
          /\ exclude_keys \in KeySetChoices
    /\ out = <<>>
    /\ fl_pc = "ready"
    /\ fs = NoFiles
    /\ file_format = ""
    /\ MergeIdle
    /\ PipelineIdle

\* a call flatten_json(y, max_depth=..., include_keys=..., exclude_keys=...)
FlattenCall ==
    /\ fl_pc = "ready"
    /\ out' = flatten_json(y, "", max_depth, include_keys, exclude_keys)
    /\ fl_pc' = "done"
    /\ UNCHANGED <<y, max_depth, include_keys, exclude_keys, fs, mergeVars, pipelineVars>>

NextFlatten == FlattenCall

SpecFlatten == InitFlatten /\ [][NextFlatten]_vars

---------------------------------------------------------------------------
(* Properties of the flattener *)

RowPairs(row) == {row[i] : i \in 1..Len(row)}

RowKeysDistinct(row) == \A i, j \in 1..Len(row) : row[i][1] = row[j][1] => i = j

IsScalar(x) == ~IsDict(x) /\ ~IsList(x)

\* a value the traversal rules descend into: a mapping, or a list of mappings only
Expandable(x) == IsDict(x) \/ (IsList(x) /\ \A i \in 1..Len(Items(x)) : IsDict(Items(x)[i]))

JoinPath(p, seg) == IF p = "" THEN seg ELSE p \o "." \o seg

ChildrenAt(p, x) ==
    IF IsDict(x)
    THEN {<<JoinPath(p, Items(x)[i][1]), Items(x)[i][2]>> : i \in 1..Len(Items(x))}
    ELSE {<<JoinPath(p, ToString(i - 1)), Items(x)[i]>> : i \in 1..Len(Items(x))}

\* the <<path, value>> pairs the traversal rules emit, level by level: level is the
\* set of pairs reached at depth d
RECURSIVE RuleRows(_, _, _)
RuleRows(level, d, md) ==
    IF level = {} THEN {}
    ELSE LET emitted == {e \in level : (md # None /\ d = md[1]) \/ ~Expandable(e[2])}
         IN  emitted \cup
             RuleRows(UNION {ChildrenAt(e[1], e[2]) : e \in level \ emitted}, d + 1, md)

Unfiltered == include_keys = None /\ exclude_keys = None

\* C1: with no include/exclude sets, flatten_json returns exactly the row the
\* traversal rules define (dot-joined paths through mappings and lists of mappings;
\* other lists, scalars and values at depth = maxDepth verbatim); the documented
\* example flattens to a.b, a.c, d.0.e, d.1.e and is unchanged with maxDepth = 1.
C1_FlattenFollowsRules ==
    (fl_pc = "done" /\ Unfiltered) =>
        /\ RowKeysDistinct(out)
        /\ RowPairs(out) = RuleRows({<<"", y>>}, 0, max_depth)
        /\ (y = ExampleRecord /\ max_depth = None) => out = ExampleFlat
        /\ (y = ExampleRecord /\ max_depth = Some(1)) => out = Items(ExampleRecord)

C1_Witness ==
    /\ fl_pc = "done" /\ Unfiltered
    /\ y = ExampleRecord /\ max_depth = None
    /\ out = ExampleFlat

FirstSegmentIn(S, row) == {e \in RowPairs(row) : TopKey(e[1]) \in S}

FirstSegmentNotIn(S, row) == {e \in RowPairs(row) : TopKey(e[1]) \notin S}

\* C2: with includeKeys = S the result is exactly the unfiltered result's paths whose
\* first segment is in S; with excludeKeys = S exactly those whose first segment is
\* not in S.
C2_FilterOnTopLevelKeys ==
    fl_pc = "done" =>
        /\ (include_keys # None /\ exclude_keys = None) =>
               RowPairs(out) =
                   FirstSegmentIn(include_keys[1], flatten_json(y, "", max_depth, None, None))
        /\ (exclude_keys # None /\ include_keys = None) =>
               RowPairs(out) =
                   FirstSegmentNotIn(exclude_keys[1], flatten_json(y, "", max_depth, None, None))

ScalarOrNonMappingList(x) ==
    IsScalar(x) \/ (IsList(x) /\ \E i \in 1..Len(Items(x)) : ~IsDict(Items(x)[i]))

\* C10 (as stated): with no depth limit no value of the row is a mapping, and no
\* value is a list that contains a mapping.
C10_NoMappingInValues ==
    (fl_pc = "done" /\ Unfiltered /\ max_depth = None) =>
        \A i \in 1..Len(out) :
            /\ ~IsDict(out[i][2])
            /\ IsList(out[i][2]) =>
                   \A j \in 1..Len(Items(out[i][2])) : ~IsDict(Items(out[i][2])[j])

\* C10 (amended): with no depth limit every value of the row is a scalar or a list
\* with at least one element that is not a mapping; no value is a mapping, an empty
\* list or a list of mappings only.
C10_ValuesScalarOrVerbatimList ==
    (fl_pc = "done" /\ Unfiltered /\ max_depth = None) =>
        \A i \in 1..Len(out) : ScalarOrNonMappingList(out[i][2])

C10_Witness ==
    /\ fl_pc = "done" /\ Unfiltered /\ max_depth = None
    /\ \E i \in 1..Len(out) :
           /\ IsList(out[i][2])
           /\ \E j \in 1..Len(Items(out[i][2])) : IsDict(Items(out[i][2])[j])
           /\ \E j \in 1..Len(Items(out[i][2])) : IsScalar(Items(out[i][2])[j])

---------------------------------------------------------------------------
(* Inputs of the merger: an old and a new file of at most MaxRows rows in  *)
(* all.  A row has an id or none, a sort value (a date, a string that is   *)
(* no date) or none, and its position in old-then-new order as a further   *)
(* field, which tells the rows apart.                                      *)

MaxRows == 3

SerialColumn == "annotationScore"

DateChoices == {None, Some("2024-01-01"), Some("2024-06-01"), Some("n/a")}

\* <<id, sort value>>: either may be missing
RowShapes == ({Some("X1"), Some("X2")} \X DateChoices) \cup {<<None, Some("2024-06-01")>>}

\* the flat row with the id and the sort value of shape, and the serial number
FlatRowOf(shape, serial) ==
    (IF shape[1] = None THEN <<>> ELSE << <<IdColumn, Str(shape[1][1])>> >>)
        \o (IF shape[2] = None THEN <<>> ELSE << <<SortBy, Str(shape[2][1])>> >>)
        \o << <<SerialColumn, Num(serial)>> >>

\* a file of the rows from..to of shapes; with no rows, the file may also be absent
FileChoices(kind, shapes, from, to) ==
    {<<kind, [i \in 1..(to - from + 1) |-> FlatRowOf(shapes[from + i - 1], from + i - 1)]>>}
        \cup (IF to < from THEN {Absent} ELSE {})

InitMerge ==
    /\ FlattenIdle
    /\ PipelineIdle
    /\ old_path = Some(BulkPath)
    /\ new_path = FlatPath
    /\ output_path = MergedPath
    /\ merged = NotCalled
    /\ m_pc = "ready"
    /\ \E n \in 0..MaxRows, kind \in {"jsonl", "json"} :
         \E shapes \in [1..n -> RowShapes], k \in 0..n :
           /\ \/ file_format = kind /\ (kind = "jsonl" \/ n <= 1)
              \/ file_format \in {"jsonl", "json", "xml"} /\ file_format # kind /\ n <= 1
           /\ \E old \in FileChoices(kind, shapes, 1, k),
                 new \in FileChoices(kind, shapes, k + 1, n) :
                fs = [NoFiles EXCEPT ![BulkPath] = old, ![FlatPath] = new]

\* a call merge_incremental_data(old_path, new_path, output_path, file_format=...)
MergeCall ==
    /\ m_pc = "ready"
    /\ \E o \in merge_incremental_data(fs, old_path, new_path, output_path, file_format) :
         /\ fs' = o.files
         /\ merged' = [status |-> o.status, rows |-> o.rows]
    /\ m_pc' = "done"
    /\ UNCHANGED <<flattenVars, old_path, new_path, output_path, file_format, pipelineVars>>

NextMerge == MergeCall

SpecMerge == InitMerge /\ [][NextMerge]_vars

---------------------------------------------------------------------------
(* Properties of the merger *)

\* <<year, month, day>> of a date cell
DateOf(c) == <<NumberOf(c[2], 1, 4), NumberOf(c[2], 6, 7), NumberOf(c[2], 9, 10)>>

\* date a is before date b
Before(a, b) ==
    \/ a[1] < b[1]
    \/ a[1] = b[1] /\ a[2] < b[2]
    \/ a[1] = b[1] /\ a[2] = b[2] /\ a[3] < b[3]

\* the rows the call read, in old-then-new order
InputRows == fs[BulkPath][2] \o fs[FlatPath][2]

InputIds == {Get(InputRows[i], IdColumn) : i \in 1..Len(InputRows)} \ {Null}

SameRow(resultRow, inputRow) ==
    \A i \in 1..Len(resultRow) : resultRow[i][2] = Get(inputRow, resultRow[i][1])

MergeReturned == m_pc = "done" /\ merged.status = "returned"

\* C3: the result holds exactly one row for every id of the inputs and no other id;
\* that row is an input row, and where the rows of its id all carry dates none of
\* them is later than it.
C3_OneNewestRowPerId ==
    MergeReturned =>
        /\ \A id \in InputIds :
               Cardinality({i \in 1..Len(merged.rows) :
                               Get(merged.rows[i], IdColumn) = id}) = 1
        /\ \A i \in 1..Len(merged.rows) :
               LET r == merged.rows[i]
                   id == Get(r, IdColumn)
                   same == {j \in 1..Len(InputRows) : Get(InputRows[j], IdColumn) = id}
               IN  /\ id # Null => id \in InputIds
                   /\ \E j \in same : SameRow(r, InputRows[j])
                   /\ (id # Null /\ \A j \in same : IsDateCell(Get(InputRows[j], SortBy))) =>
                          \A j \in same :
                              ~Before(DateOf(Get(r, SortBy)), DateOf(Get(InputRows[j], SortBy)))

\* old holds X1 dated 2024-01-01, new holds X1 dated 2024-06-01: the later one is kept
C3_Witness ==
    /\ MergeReturned
    /\ \E i \in 1..Len(fs[BulkPath][2]), j \in 1..Len(fs[FlatPath][2]) :
           /\ Get(fs[BulkPath][2][i], IdColumn) = Str("X1")
           /\ Get(fs[BulkPath][2][i], SortBy) = Str("2024-01-01")
           /\ Get(fs[FlatPath][2][j], IdColumn) = Str("X1")
           /\ Get(fs[FlatPath][2][j], SortBy) = Str("2024-06-01")
    /\ \E i \in 1..Len(merged.rows) :
           /\ Get(merged.rows[i], IdColumn) = Str("X1")
           /\ Get(merged.rows[i], SortBy) = Str("2024-06-01")

AllDated == \A j \in 1..Len(InputRows) : IsDateCell(Get(InputRows[j], SortBy))

\* the position of a row in old-then-new order
Serial(row) == Get(row, SerialColumn)[2]

\* C4: the result is in descending sortField order and the sort is stable: rows with
\* equal sortField values keep their old-then-new order, so of the rows of one id
\* that tie on the greatest sortField value the first in old-then-new order survives.
C4_StableDescending ==
    (MergeReturned /\ AllDated) =>
        /\ \A i, j \in 1..Len(merged.rows) :
               i < j => /\ ~Before(DateOf(Get(merged.rows[i], SortBy)),
                                  DateOf(Get(merged.rows[j], SortBy)))
                        /\ Get(merged.rows[i], SortBy) = Get(merged.rows[j], SortBy)
                               => Serial(merged.rows[i]) < Serial(merged.rows[j])
        /\ \A i \in 1..Len(merged.rows) : \A j \in 1..Len(InputRows) :
               (/\ Get(InputRows[j], IdColumn) = Get(merged.rows[i], IdColumn)
                /\ Get(InputRows[j], SortBy) = Get(merged.rows[i], SortBy))
                   => Serial(merged.rows[i]) <= Serial(InputRows[j])

\* C5: with a new file that holds no rows and an old file that is empty or absent,
\* the call raises nothing and returns an empty result.
C5_EmptyInputsReturnEmpty ==
    (/\ m_pc = "done"
     /\ file_format \in {"json", "jsonl"}
     /\ fs[FlatPath] = <<file_format, <<>>>>
     /\ fs[BulkPath] \in {Absent, <<file_format, <<>>>>})
        => merged = [status |-> "returned", rows |-> <<>>]

\* the call read two files of the format asked for, or a new one and no old one, and
\* some row carries the id and some row the sort field
ReadsRowsWithColumns ==
    /\ file_format = "jsonl"
    /\ fs[FlatPath][1] = "jsonl"
    /\ fs[BulkPath][1] \in {"jsonl", "absent"}
    /\ \E j \in 1..Len(InputRows) : HasKey(InputRows[j], IdColumn)
    /\ \E j \in 1..Len(InputRows) : HasKey(InputRows[j], SortBy)

\* C11: the sort compares sortField values as timestamps; a row whose value does not
\* parse or is missing counts as the minimum: it comes after every row with a date
\* and loses deduplication to a dated row of its id; no error is raised for it.
C11_UnparseableIsMinimum ==
    (m_pc = "done" /\ ReadsRowsWithColumns) =>
        /\ merged.status = "returned"
        /\ \A i, j \in 1..Len(merged.rows) :
               LET a == Get(merged.rows[i], SortBy)
                   b == Get(merged.rows[j], SortBy)
               IN  i < j => /\ IsDateCell(b) => IsDateCell(a)
                            /\ (IsDateCell(a) /\ IsDateCell(b)) => ~Before(DateOf(a), DateOf(b))
        /\ \A i \in 1..Len(merged.rows) : \A j \in 1..Len(InputRows) :
               (/\ Get(InputRows[j], IdColumn) = Get(merged.rows[i], IdColumn)
                /\ IsDateCell(Get(InputRows[j], SortBy)))
                   => IsDateCell(Get(merged.rows[i], SortBy))

---------------------------------------------------------------------------
(* Inputs of a run: a response of at most MaxRecords records, each with an *)
(* accession or none, an entryAudit date (a date, a string that is no      *)
(* date) or none, its position in the response, and a sequence.            *)

MaxRecords == 3

ApiDateChoices ==
    {None, Some("2024-01-01"), Some("2024-05-01"), Some("2024-07-01"), Some("n/a")}

\* <<accession, date>>: either may be missing
ApiShapes ==
    ({Some("X1")} \X ApiDateChoices)
        \cup {<<Some("X2"), Some("2024-05-01")>>, <<Some("X2"), Some("2024-07-01")>>,
              <<None, Some("2024-05-01")>>}

\* the record with the accession and the date of shape, and the serial number
ApiRecord(shape, serial) ==
    Dict((IF shape[1] = None THEN <<>> ELSE << <<IdColumn, Str(shape[1][1])>> >>)
         \o (IF shape[2] = None THEN <<>>
             ELSE << <<"entryAudit",
                       Dict(<< <<"lastAnnotationUpdateDate", Str(shape[2][1])>> >>)>> >>)
         \o << <<SerialColumn, Num(serial)>>,
               <<"sequence", Dict(<< <<"value", Str("MK")>> >>)>> >>)

Responses(maxLen) ==
    {<<"RequestException", <<>>>>, <<"not_json", <<>>>>}
        \cup UNION {{<<"ok", [i \in 1..n |-> ApiRecord(shapes[i], i)]>> :
                        shapes \in [1..n -> ApiShapes]} : n \in 0..maxLen}

TempPath == make_temp_path(MergedPath)

\* a base written by a bulk run (dates as strings), and one written by an earlier
\* merge (dates as epoch numbers)
BulkWritten ==
    <<"jsonl", << << <<IdColumn, Str("X1")>>, <<SortBy, Str("2024-01-01")>>,
                     <<SerialColumn, Num(0)>> >> >> >>

MergeWritten ==
    <<"jsonl", << << <<IdColumn, Str("X1")>>,
                     <<SortBy, to_epoch(to_datetime(Str("2024-06-01")))>>,
                     <<SerialColumn, Num(0)>> >> >> >>

\* <<base_jsonl, the files before the run>>
BaseCases ==
    {<<None, NoFiles>>,
     <<Some(BulkPath), NoFiles>>,
     <<Some(BulkPath), [NoFiles EXCEPT ![BulkPath] = BulkWritten]>>,
     <<Some(BulkPath), [NoFiles EXCEPT ![BulkPath] = MergeWritten]>>,
     <<Some(MergedPath), [NoFiles EXCEPT ![MergedPath] = MergeWritten]>>}

InitPipeline ==
    /\ FlattenIdle
    /\ MergeIdle
    /\ run = [status |-> "none", stage |-> "none"]
    /\ p_pc = "ready"
    /\ \E bc \in BaseCases : base_jsonl = bc[1] /\ fs = bc[2]
    /\ \/ /\ mode = "incremental"
          /\ exclude_sequence = TRUE
          /\ \/ from_date = Some("2024-04-01")
             \/ from_date = Some("2024-05-01") /\ base_jsonl = Some(BulkPath) /\ fs = NoFiles
          /\ response \in Responses(MaxRecords)
       \/ /\ mode = "bulk"
          /\ exclude_sequence = TRUE
          /\ from_date = None
          /\ base_jsonl = None
          /\ response \in Responses(MaxRecords)
       \/ /\ mode \in {"bulk", "incremental", "full"}
          /\ exclude_sequence \in BOOLEAN
          /\ from_date \in {None, Some(""), Some("n/a"), Some("2024-04-01")}
          /\ response \in Responses(1)
    /\ \/ file_format = "jsonl"
       \/ file_format \in {"json", "xml"} /\ Len(response[2]) <= 1

\* a call run_pipeline(mode, RawPath, MergedPath, from_date=..., base_jsonl=..., ...)
RunPipeline ==
    /\ p_pc = "ready"
    /\ \E e \in run_pipeline(fs, mode, RawPath, MergedPath, from_date, base_jsonl,
                             exclude_sequence, file_format, response) :
         /\ fs' = e.files
         /\ run' = [status |-> e.status, stage |-> e.stage]
    /\ p_pc' = "done"
    /\ UNCHANGED <<flattenVars, mergeVars, mode, from_date, base_jsonl,
                   exclude_sequence, response>>

NextPipeline == RunPipeline

SpecPipeline == InitPipeline /\ [][NextPipeline]_vars

Init == InitFlatten \/ InitMerge \/ InitPipeline

Next == FlattenCall \/ MergeCall \/ RunPipeline

Spec == Init /\ [][Next]_vars

---------------------------------------------------------------------------
(* Properties of a run *)

RunEnds == p_pc = "ready" /\ p_pc' = "done"

Aborts == RunEnds /\ run'.status # "returned"

\* C6: when the fetch returns no records, a bulk or an incremental run raises nothing
\* and creates or changes no file.
C6_EmptyFetchChangesNothing ==
    [][(/\ RunEnds
        /\ mode = "bulk" \/ (mode = "incremental" /\ Parses(Str(from_date[1])))
        /\ response = <<"ok", <<>>>>)
          => (run'.status = "returned" /\ fs' = fs)]_vars

\* the fatal conditions the claim names, as the run meets them: the request fails;
\* the sort field is in no row (at the filter), the id field is in no row or the
\* format is unsupported (at the merge)
NamedFatal ==
    /\ Aborts
    /\ \/ response[1] = "RequestException"
       \/ run'.stage = "filter" /\ run'.status = "KeyError"
       \/ run'.stage = "merge" /\ run'.status = "ValueError"

\* C7 (as stated): a run that ends in a fatal condition has written or changed none
\* of its output files.
C7_AbortWritesNoFile == [][NamedFatal => fs' = fs]_vars

\* C7 (amended): a run that ends in a fatal condition has not written the
\* flattened/merged output path, and one that ends in a failed request has written
\* no file at all.
C7_AbortLeavesMergedOutput ==
    [][Aborts => /\ fs'[MergedPath] = fs[MergedPath]
                 /\ response[1] = "RequestException" => fs' = fs]_vars

\* the id field is in no row: the merge raises after the raw JSON, the metadata and
\* the temporary file were written, and before the merged output is
C7_Witness ==
    /\ p_pc = "done" /\ run = [status |-> "ValueError", stage |-> "merge"]
    /\ file_format = "jsonl"
    /\ base_jsonl = Some(BulkPath)
    /\ Exists(fs, RawPath) /\ Exists(fs, metadata_path(RawPath)) /\ Exists(fs, TempPath)
    /\ ~Exists(fs, MergedPath)

NoBase == base_jsonl = None \/ (base_jsonl = Some(BulkPath) /\ ~Exists(fs, BulkPath))

RowIds(rows) == {Get(rows[i], IdColumn) : i \in 1..Len(rows)}

\* rows holds exactly one row of from for each id of from, and nothing else
DeduplicatedFrom(rows, from) ==
    /\ \A i \in 1..Len(rows) : \E j \in 1..Len(from) : SameRow(rows[i], from[j])
    /\ \A i, j \in 1..Len(rows) :
           Get(rows[i], IdColumn) = Get(rows[j], IdColumn) => i = j
    /\ RowIds(rows) = RowIds(from)

\* C8: an incremental run with no base (none given, or none at the path) whose new
\* rows reach the merge succeeds, and the merged output is the deduplicated new rows.
C8_MissingBaseTolerated ==
    (/\ p_pc = "done" /\ mode = "incremental" /\ run.stage = "merge"
     /\ file_format = "jsonl"
     /\ NoBase
     /\ \E i \in 1..Len(fs[TempPath][2]) : HasKey(fs[TempPath][2][i], IdColumn))
        => /\ run.status = "returned"
           /\ fs[MergedPath][1] = "jsonl"
           /\ DeduplicatedFrom(fs[MergedPath][2], fs[TempPath][2])

\* the date a record carries at entryAudit.lastAnnotationUpdateDate; Null if none
NestedDate(rec) ==
    LET audit == Get(Items(rec), "entryAudit")
    IN  IF IsDict(audit) THEN Get(Items(audit), "lastAnnotationUpdateDate") ELSE Null

\* the records of the response dated fromDate or later
Since(rec) ==
    IsDateCell(NestedDate(rec)) /\ ~Before(DateOf(NestedDate(rec)), DateOf(Str(from_date[1])))

Serials(rows) == [i \in 1..Len(rows) |-> Get(rows[i], SerialColumn)]

\* C9: the rows passed to the merger are exactly the fetched rows dated fromDate or
\* later (a row dated fromDate is kept, a row whose value is no date is dropped, and
\* nothing is raised); if there is none the merge is skipped and the merged output
\* is left as it was.
C9_FilterKeepsRowsSinceFromDate ==
    [][(/\ RunEnds /\ mode = "incremental"
        /\ from_date # None /\ IsDateCell(Str(from_date[1]))
        /\ response[1] = "ok"
        /\ \E i \in 1..Len(response[2]) : NestedDate(response[2][i]) # Null)
          => LET kept == SelectSeq(response[2], Since)
             IN  /\ run'.stage \in {"skipped", "merge"}
                 /\ run'.stage = "merge" =>
                        /\ kept # <<>>
                        /\ fs'[TempPath][1] = "jsonl"
                        /\ Serials(fs'[TempPath][2]) = Serials([i \in 1..Len(kept) |-> Items(kept[i])])
                 /\ run'.stage = "skipped" =>
                        /\ kept = <<>>
                        /\ run'.status = "returned"
                        /\ fs'[MergedPath] = fs[MergedPath]]_vars

\* rows dated 2024-01-01, 2024-05-01 and 2024-07-01 with fromDate 2024-04-01: the
\* second and the third are passed to the merger
C9_Witness ==
    /\ p_pc = "done" /\ mode = "incremental" /\ run.stage = "merge"
    /\ from_date = Some("2024-04-01")
    /\ response[1] = "ok" /\ Len(response[2]) = 3
    /\ NestedDate(response[2][1]) = Str("2024-01-01")
    /\ NestedDate(response[2][2]) = Str("2024-05-01")
    /\ NestedDate(response[2][3]) = Str("2024-07-01")
    /\ Serials(fs[TempPath][2]) = <<Num(2), Num(3)>>

====
